---- MODULE Spec2Model ----
(***************************************************************************)
(* A model of highcharts-axis-labels-shorten.js: the label shortening      *)
(* loop (getShortened), the memoizing TextShortener, and the wrapper       *)
(* around Highcharts' Axis.prototype.init with the label formatter and the *)
(* tick positioner it installs.                                            *)
(*                                                                         *)
(* Strings are sequences of one-character strings.  Pixel widths are       *)
(* integers; the quotient overlap / (w / length) is taken exactly (within  *)
(* the bounds used here IEEE doubles give the same ceiling, except for a   *)
(* width of 0, where keepChars is 0 either way).                           *)
(***************************************************************************)
EXTENDS Integers, Sequences, FiniteSets, TLC

\* ------------------------------------------------------------- bounds
MaxLen    == 5      \* longest text handed to getShortened
MaxCharW  == 3      \* widest character, in pixels
NegWidths == 1      \* how far below zero maxWidth ranges
MaxIters  == 7      \* cap on the counted iterations of the do-while loop
LineHeight == 14    \* height of one line of text, in pixels
CharPx    == 8      \* width of a character of an axis label, in pixels
MaxAxes   == 2      \* axes initialised on the chart
PlotStep  == 10     \* the plot widths tried are multiples of PlotStep ...
MaxPlotSteps == 33  \* ... up to MaxPlotSteps * PlotStep
MaxTicks  == 2      \* most tick positions at a formatter call
MaxCategories == 10 \* most categories of an axis asked for its ticks
MaxCategoryLen == 2 \* longest category string, where its characters vary
MaxCategoryCount == 2 \* most categories, where their characters vary

VARIABLES
    charWidth,   \* the measure function: pixel width of each character
    text,        \* getShortened's argument text
    maxWidth,    \* getShortened's argument width
    short,       \* local variable short
    shortened,   \* local variable shortened
    pc,          \* "idle" | "loop" | "done": position in getShortened
    result,      \* the string returned (when pc = "done")
    iters,       \* iterations of the loop body run so far (capped)
    chart,       \* the chart object the axes belong to (userOptions)
    axes,        \* per call of the wrapped init: the axis object, the options
                 \* object handed in, and the variables its closures capture
    cache,       \* ts._cache
    measured,    \* how often measureText (the DOM measurement) ran, per
                 \* (style, className, text)
    last,        \* the last call made by the host, with what it returned
    hung         \* a callback is in a loop that never ends

shortenVars == <<text, maxWidth, short, shortened, pc, result, iters>>
axisVars == <<chart, axes, cache, measured, last, hung>>
vars == <<charWidth, shortenVars, axisVars>>

\* ------------------------------------------------------------ helpers
Max(a, b) == IF a >= b THEN a ELSE b
Min(a, b) == IF a <= b THEN a ELSE b

\* Math.ceil(a / b) for b > 0
CeilDiv(a, b) == -((-a) \div b)

\* string.substring(0, n) for 0 <= n
Substring0(s, n) == SubSeq(s, 1, Min(n, Len(s)))

Ellipsis == <<".", ".", ".">>

RECURSIVE SumWidths(_, _)
SumWidths(cw, s) == IF s = <<>> THEN 0 ELSE cw[Head(s)] + SumWidths(cw, Tail(s))

\* ------------------------------------------------- getShortened (pure)
\* A measurement is a record [width, height]; a value without a width field
\* stands for a JavaScript value whose .width is undefined.
HasWidth(m) == "width" \in DOMAIN m

\* if (w < width) break;      (undefined < width is false)
FitsOffByOne(m, width) == HasWidth(m) /\ m.width + 1 < width
Fits(m, width) == HasWidth(m) /\ m.width < width

\* keepChars is NaN: w undefined, or 0/0 in w/short.length or in
\* overlap / oneLetterApprox.  Math.max(0, NaN) is NaN.
KeepCharsIsNaN(len, m, width) ==
    \/ ~HasWidth(m)
    \/ len = 0 /\ m.width = 0
    \/ len > 0 /\ m.width = 0 /\ m.width - width = 0

\* Math.max(0, short.length - Math.ceil(overlap / oneLetterApprox) - 3),
\* for a keepChars that is a number.  A zero oneLetterApprox with a positive
\* overlap gives Infinity, hence 0; an infinite oneLetterApprox gives 0.
KeepCharsReserveTwo(len, m, width) ==
    IF m.width = 0 THEN 0
    ELSE IF len = 0 THEN 0
    ELSE Max(0, len - CeilDiv((m.width - width) * len, m.width) - 2)
KeepCharsNoReserve(len, m, width) ==
    IF m.width = 0 THEN 0
    ELSE IF len = 0 THEN 0
    ELSE Max(0, len - CeilDiv((m.width - width) * len, m.width))
KeepChars(len, m, width) ==
    IF m.width = 0 THEN 0
    ELSE IF len = 0 THEN 0
    ELSE Max(0, len - CeilDiv((m.width - width) * len, m.width) - 3)

\* if (keepChars < 1) { return '.'; }
DegenerateReturnsShort(s) == s
Degenerate(s) == <<".">>

\* One pass through the body of the do-while loop, given the measurement m
\* of the candidate s.  done: the function returns result; otherwise the loop
\* goes round with the new short.
LoopBody(s, sh, m, width) ==
    IF Fits(m, width)
    THEN [done |-> TRUE, short |-> s, shortened |-> sh,
          result |-> s \o (IF sh THEN Ellipsis ELSE <<>>)]
    ELSE IF KeepCharsIsNaN(Len(s), m, width)
    THEN \* NaN < 1 is false; substring(0, NaN) is the empty string
         [done |-> FALSE, short |-> <<>>, shortened |-> TRUE, result |-> <<>>]
    ELSE IF KeepChars(Len(s), m, width) < 1
    THEN [done |-> TRUE, short |-> s, shortened |-> TRUE, result |-> Degenerate(s)]
    ELSE [done |-> FALSE, short |-> Substring0(s, KeepChars(Len(s), m, width)),
          shortened |-> TRUE, result |-> <<>>]

\* The measure function handed to getShortened: the sum of the characters'
\* widths under cw, and nothing at all for the empty string.
MeasureByChars(cw, s) ==
    IF s = <<>> THEN [width |-> 0, height |-> 0]
    ELSE [width |-> SumWidths(cw, s), height |-> LineHeight]

\* getShortened run to its end.  diverged: the loop came back to a candidate
\* it had already tried (the empty string), so it never ends.
RECURSIVE RunLoop(_, _, _, _)
RunLoop(cw, s, sh, width) ==
    LET b == LoopBody(s, sh, MeasureByChars(cw, s), width) IN
    IF b.done THEN [diverged |-> FALSE, result |-> b.result]
    ELSE IF b.short = s THEN [diverged |-> TRUE, result |-> <<>>]
    ELSE RunLoop(cw, b.short, b.shortened, width)

getShortened(cw, t, width) == RunLoop(cw, t, FALSE, width)

\* ------------------------------------------- getShortened, step by step
Chars == {"i", "W", "."}
Letters == {"i", "W"}

RECURSIVE SeqsUpTo(_, _)
SeqsUpTo(S, n) ==
    IF n = 0 THEN {<<>>}
    ELSE LET P == SeqsUpTo(S, n - 1) IN
         P \cup {Append(p, c) : p \in {q \in P : Len(q) = n - 1}, c \in S}

Texts == SeqsUpTo(Letters, MaxLen)
Widths == (-NegWidths) .. (MaxLen * MaxCharW + 1)
\* "i" names the narrower of the two letters
CharWidths == {f \in [Chars -> 0 .. MaxCharW] : f["i"] <= f["W"]}

ShortenIdle ==
    /\ text = <<>> /\ maxWidth = 0 /\ short = <<>> /\ shortened = FALSE
    /\ pc = "idle" /\ result = <<>> /\ iters = 0

\* no chart: getShortened alone, with a measure function of its own
NoChart ==
    /\ chart = <<>> /\ axes = <<>> /\ cache = <<>> /\ measured = <<>>
    /\ last = [kind |-> "none"] /\ hung = FALSE

InitShorten ==
    /\ charWidth \in CharWidths
    /\ ShortenIdle
    /\ NoChart

\* getShortened(text, width, measureFunction, ...) is entered
Call(t, w) ==
    /\ pc = "idle"
    /\ text' = t /\ maxWidth' = w /\ short' = t /\ shortened' = FALSE
    /\ pc' = "loop" /\ result' = <<>> /\ iters' = 0
    /\ UNCHANGED <<charWidth, axisVars>>

\* one iteration of do { ... } while (true)
LoopStep ==
    /\ pc = "loop" /\ iters < MaxIters
    /\ LET b == LoopBody(short, shortened, MeasureByChars(charWidth, short), maxWidth) IN
        /\ short' = b.short /\ shortened' = b.shortened
        /\ result' = b.result
        /\ pc' = IF b.done THEN "done" ELSE "loop"
    /\ iters' = iters + 1
    /\ UNCHANGED <<charWidth, text, maxWidth, axisVars>>

\* the caller takes the result
Return ==
    /\ pc = "done"
    /\ text' = <<>> /\ maxWidth' = 0 /\ short' = <<>> /\ shortened' = FALSE
    /\ pc' = "idle" /\ result' = <<>> /\ iters' = 0
    /\ UNCHANGED <<charWidth, axisVars>>

NextShorten ==
    \/ \E t \in Texts, w \in Widths : Call(t, w)
    \/ LoopStep
    \/ Return

SpecShorten == InitShorten /\ [][NextShorten]_vars

\* ------------------------------------------------ JavaScript values
\* A value that may be undefined is a set: empty for undefined, else the
\* one value.  An object is a record; a property it lacks is undefined.
Undefined == {}
The(m) == CHOOSE x \in m : TRUE
\* a string or an object in a condition: undefined and '' are false
Truthy(m) == m # Undefined /\ m # {<<>>}
\* a || b
Or(a, b) == IF Truthy(a) THEN a ELSE b
Has(obj, f) == f \in DOMAIN obj
SetField(obj, f, v) == (f :> v) @@ obj
\* a value in a string concatenation
StringOf(m) == IF m = Undefined THEN <<"undefined">> ELSE The(m)

\* string.indexOf(char), counted from 1; 0 when there is none
IndexOf(s, c) ==
    IF \E k \in 1 .. Len(s) : s[k] = c
    THEN CHOOSE k \in 1 .. Len(s) : s[k] = c /\ \A j \in 1 .. k - 1 : s[j] # c
    ELSE 0

splitByFirst(s, c) ==
    LET index == IndexOf(s, c) IN
    IF index # 0
    THEN [prefix |-> SubSeq(s, 1, index - 1), suffix |-> SubSeq(s, index + 1, Len(s))]
    ELSE [prefix |-> s, suffix |-> <<>>]

\* object[name]: a path is a sequence of property names and "." separators
Property(obj, name) ==
    IF Len(name) = 1 /\ Has(obj, name[1]) THEN {obj[name[1]]} ELSE Undefined

RECURSIVE getPath(_, _)
getPath(object, path) ==
    IF object = Undefined THEN Undefined
    ELSE IF Len(path) = 0 THEN object
    ELSE LET split == splitByFirst(path, ".") IN
         getPath(Property(The(object), split.prefix), split.suffix)

\* a JavaScript number: an integer, NaN or Infinity
Num(n) == [num |-> n]
NaN == [nan |-> TRUE]
Infinity == [inf |-> TRUE]
IsNum(x) == Has(x, "num")

Digits == <<"0", "1", "2", "3", "4", "5", "6", "7", "8", "9">>
IsDigit(c) == \E d \in 1 .. 10 : Digits[d] = c
DigitValue(c) == (CHOOSE d \in 1 .. 10 : Digits[d] = c) - 1

RECURSIVE ParseDigits(_, _)
ParseDigits(s, acc) ==
    IF s # <<>> /\ IsDigit(Head(s))
    THEN ParseDigits(Tail(s), 10 * acc + DigitValue(Head(s)))
    ELSE acc

\* parseFloat of a string that holds no sign, point or exponent: the number
\* its leading digits spell, NaN when it starts with none
parseFloat(s) ==
    IF s # <<>> /\ IsDigit(Head(s)) THEN Num(ParseDigits(s, 0)) ELSE NaN

\* Math.round(a / b) for a >= 0, b > 0
RoundDiv(a, b) == (2 * a + b) \div (2 * b)

\* ------------------------------------------------------ TextShortener
\* properties every object literal inherits from Object.prototype
ObjectPrototypeKeys ==
    {<<"constructor">>, <<"toString">>, <<"valueOf">>, <<"hasOwnProperty">>,
     <<"isPrototypeOf">>, <<"propertyIsEnumerable">>, <<"toLocaleString">>,
     <<"__proto__">>}
\* the value of such a property: an object without a width
InheritedProperty == [inherited |-> TRUE]

\* classCache[text] on an object literal
Lookup(obj, key) ==
    IF key \in DOMAIN obj THEN {obj[key]}
    ELSE IF key \in ObjectPrototypeKeys THEN {InheritedProperty}
    ELSE Undefined

Count(n, t) == IF t \in DOMAIN n THEN n[t] ELSE 0

\* if (classCache[text]) { return classCache[text]; }
CacheHit(classCache, t) == Lookup(classCache, t)

\* TextShortener.prototype.measureText, on the cache c with the counts n of
\* measurements made.  cacheKey is never a property of Object.prototype: it
\* holds a "|".
measureText(c, n, t, style, className) ==
    LET cacheKey == StringOf(style) \o <<"|">> \o StringOf(className)
        classCache == IF cacheKey \in DOMAIN c THEN c[cacheKey] ELSE <<>>
        c1 == SetField(c, cacheKey, classCache)
        hit == CacheHit(classCache, t)
        m == MeasureByChars(charWidth, t)
        triple == <<style, className, t>>
    IN  IF hit # Undefined
        THEN [value |-> The(hit), cache |-> c1, measured |-> n]
        ELSE [value |-> m,
              cache |-> SetField(c1, cacheKey, SetField(classCache, t, m)),
              measured |-> SetField(n, triple, Count(n, triple) + 1)]

\* TextShortener.prototype.getShortened: getShortened with this.measureText.
\* acc: the (style, className, text) triples asked for so far.
RECURSIVE RunLoopCached(_, _, _, _, _, _, _)
RunLoopCached(c, n, s, sh, width, style, acc) ==
    LET r == measureText(c, n, s, style, Undefined)
        b == LoopBody(s, sh, r.value, width)
        seen == acc \cup {<<style, Undefined, s>>}
    IN  IF b.done
        THEN [diverged |-> FALSE, result |-> b.result, cache |-> r.cache,
              measured |-> r.measured, accessed |-> seen]
        ELSE IF b.short = s
        THEN [diverged |-> TRUE, result |-> <<>>, cache |-> r.cache,
              measured |-> r.measured, accessed |-> seen]
        ELSE RunLoopCached(r.cache, r.measured, b.short, b.shortened, width, style, seen)

tsGetShortened(c, n, t, width, style) == RunLoopCached(c, n, t, FALSE, width, style, {})

\* ------------------------------------------- the wrapped Axis init
MAX_X_AXIS_HEIGHT == 200
LABEL_EXPECTED_WIDTH == 80
NBSP == "U+00A0"
DefaultFontFamily ==
    <<"\"Lucida Grande\", \"Lucida Sans Unicode\", Arial, Helvetica, sans-serif">>
DefaultFontSize == <<"1", "1", "p", "x">>

PathFont == <<"labels", ".", "style", ".", "font">>
PathFontFamily == <<"labels", ".", "style", ".", "fontFamily">>
PathFontSize == <<"labels", ".", "style", ".", "fontSize">>
PathChartFontFamily ==
    <<"userOptions", ".", "chart", ".", "style", ".", "fontFamily">>

\* var labelsRotated = options.labels && options.labels.rotation;
LabelsRotated(options) ==
    Has(options, "labels") /\ Has(options.labels, "rotation")
        /\ options.labels.rotation # 0

\* if (!options.isX || !options.shortenLabels)
NotApplicableOnlyIfBoth(options) == ~options.isX /\ ~options.shortenLabels
NotApplicable(options) == ~options.isX \/ ~options.shortenLabels

\* category.replace(/ /g, ' ')
ReplaceFirstSpace(category) ==
    [k \in 1 .. Len(category) |->
        IF k = IndexOf(category, " ") THEN NBSP ELSE category[k]]
ReplaceSpaces(category) ==
    [k \in 1 .. Len(category) |-> IF category[k] = " " THEN NBSP ELSE category[k]]

\* the options object after lines 211-226, for the closure made by call i
ForceConfiguration(options, i) ==
    LET labels0 == IF Has(options, "labels") THEN options.labels ELSE <<>>
        labels1 == SetField(labels0, "maxStaggerLines", 1)
        labels2 == SetField(labels1, "overflow", FALSE)
        labels3 == SetField(labels2, "formatter", [closure |-> i])
        withLabels == SetField(options, "labels", labels3)
    IN  SetField(withLabels, "categories",
            [k \in 1 .. Len(options.categories) |-> ReplaceSpaces(options.categories[k])])

\* proceed.apply(this, [chart, options]): Highcharts' own Axis.init, as far
\* as this plugin reads its effect: the axis keeps a copy of the options,
\* the categories and the chart
Proceed(options) == [options |-> options, categories |-> options.categories]

\* lines 233-248
FontFamily(axisOptions, ch) ==
    LET labelsFontString == getPath({axisOptions}, PathFont)
        parsed == IF Truthy(labelsFontString)
                  THEN {splitByFirst(The(labelsFontString), " ").suffix}
                  ELSE Undefined
    IN  The(Or(parsed, Or(getPath({axisOptions}, PathFontFamily),
            Or(getPath({ch}, PathChartFontFamily), {DefaultFontFamily}))))

FontSize(axisOptions) ==
    LET labelsFontString == getPath({axisOptions}, PathFont)
        parsed == IF Truthy(labelsFontString)
                  THEN {splitByFirst(The(labelsFontString), " ").prefix}
                  ELSE Undefined
    IN  The(Or(parsed, Or(getPath({axisOptions}, PathFontSize), {DefaultFontSize})))

\* customOptions.style = 'font-size:' + fontSize + ';font-family:' + fontFamily
StyleString(fontSize, fontFamily) ==
    <<"font-size:">> \o fontSize \o <<";font-family:">> \o fontFamily

Uninitialised == [state |-> "none"]

\* The whole wrapper, for call i with the options object handed in: what the
\* axis (this), the options object and the closure's variables are when it
\* returns.  given and passed keep the options object as handed in and as
\* handed on to proceed; proceedCalls counts the calls of proceed.
WrappedInit(i, ch, options) ==
    IF NotApplicable(options)
    THEN [state |-> "init", enabled |-> FALSE, given |-> options,
          passed |-> options, proceedCalls |-> 1, userOptions |-> options,
          options |-> Proceed(options).options,
          categories |-> Proceed(options).categories]
    ELSE LET forced == ForceConfiguration(options, i)
             this == Proceed(forced)
             fontSize == FontSize(this.options)
             fontFamily == FontFamily(this.options, ch)
         IN  [state |-> "init", enabled |-> TRUE, given |-> options,
              passed |-> forced, proceedCalls |-> 1, userOptions |-> forced,
              options |-> SetField(this.options, "tickPositioner", [closure |-> i]),
              categories |-> this.categories,
              labelsRotated |-> LabelsRotated(options),
              customOptions |-> [style |-> StyleString(fontSize, fontFamily)],
              axisFontSize |-> parseFloat(fontSize)]

\* the closure variables the callbacks made by call i read
ClosureOfLatest(i) ==
    axes[CHOOSE j \in DOMAIN axes : axes[j].state = "init" /\ axes[j].enabled
            /\ \A k \in DOMAIN axes :
                (axes[k].state = "init" /\ axes[k].enabled) => k <= j]
ClosureOf(i) == axes[i]

\* options.labels.formatter: the available width
PixelWidth(rotated, plotWidth, nTicks) ==
    IF rotated THEN MAX_X_AXIS_HEIGHT ELSE RoundDiv(plotWidth, nTicks)

\* this.options.tickPositioner
PerTickWidth(rotated, axisFontSize) ==
    IF rotated
    THEN (IF IsNum(axisFontSize) THEN Num(2 * axisFontSize.num) ELSE NaN)
    ELSE Num(LABEL_EXPECTED_WIDTH)

\* Math.floor(plotWidth / perTickWidth) for plotWidth >= 0
TicksThatFit(plotWidth, perTickWidth) ==
    IF ~IsNum(perTickWidth) THEN NaN
    ELSE IF perTickWidth.num = 0
    THEN (IF plotWidth = 0 THEN NaN ELSE Infinity)
    ELSE Num(plotWidth \div perTickWidth.num)

\* Math.ceil(n / ticks)
SkipFloor(n, ticks) ==
    IF ticks = NaN THEN NaN
    ELSE IF ticks = Infinity THEN Num(0)
    ELSE IF ticks.num = 0 THEN (IF n = 0 THEN NaN ELSE Infinity)
    ELSE Num(n \div ticks.num)
Skip(n, ticks) ==
    IF ticks = NaN THEN NaN
    ELSE IF ticks = Infinity THEN Num(0)
    ELSE IF ticks.num = 0 THEN (IF n = 0 THEN NaN ELSE Infinity)
    ELSE Num(CeilDiv(n, ticks.num))

\* idx % skip === 0
Divisible(idx, skip) ==
    IF skip = NaN THEN FALSE
    ELSE IF skip = Infinity THEN idx = 0
    ELSE IF skip.num = 0 THEN FALSE
    ELSE idx % skip.num = 0

tickPositioner(closure, categories, plotWidth) ==
    LET perTickWidth == PerTickWidth(closure.labelsRotated, closure.axisFontSize)
        ticks == TicksThatFit(plotWidth, perTickWidth)
        skip == Skip(Len(categories), ticks)
        all == [k \in 1 .. Len(categories) |-> k - 1]
    IN  SelectSeq(all, LAMBDA idx : Divisible(idx, skip))

\* the elements of a list
RangeOf(s) == {s[k] : k \in 1 .. Len(s)}

\* ------------------------------------------------------------ actions
Initialised(i) == axes[i].state = "init"
NextAxis == Cardinality({i \in DOMAIN axes : Initialised(i)}) + 1

\* the host initialises its next axis: the wrapped init runs from entry to
\* return
InitAxis(i, options) ==
    /\ ~hung /\ i \in DOMAIN axes /\ i = NextAxis
    /\ axes' = [axes EXCEPT ![i] = WrappedInit(i, chart, options)]
    /\ last' = [kind |-> "init", axis |-> i]
    /\ UNCHANGED <<charWidth, shortenVars, chart, cache, measured, hung>>

\* the host asks for the label of one tick of axis i: this.value is one of
\* the axis' categories, this.chart.plotWidth and this.axis.tickPositions
\* are what they are at that moment
FormatterCall(i, value, plotWidth, nTicks) ==
    /\ ~hung /\ i \in DOMAIN axes /\ Initialised(i)
    /\ Has(axes[i].options, "labels") /\ Has(axes[i].options.labels, "formatter")
    /\ axes[i].options.labels.formatter = [closure |-> i]
    /\ \E k \in 1 .. Len(axes[i].categories) : axes[i].categories[k] = value
    /\ LET closure == ClosureOf(i)
           pixelWidth == PixelWidth(closure.labelsRotated, plotWidth, nTicks)
           style == IF Has(closure.customOptions, "style")
                    THEN {closure.customOptions.style} ELSE Undefined
           r == tsGetShortened(cache, measured, value, pixelWidth, style)
       IN  /\ cache' = r.cache
           /\ measured' = r.measured
           /\ hung' = r.diverged
           /\ last' = [kind |-> "format", axis |-> i, value |-> value,
                       width |-> pixelWidth, returned |-> ~r.diverged,
                       result |-> r.result, accessed |-> r.accessed]
    /\ UNCHANGED <<charWidth, shortenVars, chart, axes>>

\* the host asks axis i for its tick positions
TickPositionerCall(i, plotWidth) ==
    /\ ~hung /\ i \in DOMAIN axes /\ Initialised(i)
    /\ Has(axes[i].options, "tickPositioner")
    /\ axes[i].options.tickPositioner = [closure |-> i]
    /\ last' = [kind |-> "ticks", axis |-> i, plotWidth |-> plotWidth,
                indices |-> tickPositioner(ClosureOf(i), axes[i].categories, plotWidth)]
    /\ UNCHANGED <<charWidth, shortenVars, chart, axes, cache, measured, hung>>

\* ------------------------------------------------------ specifications
AxisChars == {"a", " ", NBSP}

InitAxes(charts) ==
    /\ charWidth = [c \in AxisChars |-> CharPx]
    /\ ShortenIdle
    /\ chart \in charts
    /\ axes = [i \in 1 .. MaxAxes |-> Uninitialised]
    /\ cache = <<>> /\ measured = <<>>
    /\ last = [kind |-> "none"] /\ hung = FALSE

PlainChart == [userOptions |-> <<>>]
StyledChart == [userOptions |-> [chart |-> [style |-> [fontFamily |-> <<"C">>]]]]

PlotWidths == {k * PlotStep : k \in 0 .. MaxPlotSteps}
PlotWidthsCoarse == {0, 4 * PlotStep, 10 * PlotStep}

\* records over the fields in fs, each field f taking its values in vals[f]
RECURSIVE Objects(_, _)
Objects(fs, vals) ==
    IF fs = {} THEN {<<>>}
    ELSE LET f == CHOOSE g \in fs : TRUE
             rest == Objects(fs \ {f}, vals)
         IN  rest \cup {SetField(r, f, v) : r \in rest, v \in vals[f]}

\* labels.style: any of font, fontFamily and fontSize, or none
Fonts == {<<"9", "p", "x", " ", "A", " ", "B">>, <<"9", "p", "x">>, <<" ", "A">>}
StyleObjects ==
    Objects({"font", "fontFamily", "fontSize"},
            [font |-> Fonts, fontFamily |-> {<<"F">>}, fontSize |-> {<<"7", "p", "x">>}])
LabelObjects ==
    Objects({"style", "rotation"}, [style |-> StyleObjects, rotation |-> {45}])
\* labels the user has configured for himself
UserLabels ==
    [formatter |-> [user |-> TRUE], overflow |-> "justify", maxStaggerLines |-> 2,
     style |-> [font |-> <<"9", "p", "x", " ", "A", " ", "B">>]]

\* the options objects of the axes of the default specification
OneCategory == << <<"a", " ", "a">> >>
InitOptions ==
    {SetField([isX |-> x, shortenLabels |-> s, categories |-> OneCategory], "labels", UserLabels)
        : x, s \in BOOLEAN}
    \cup {[isX |-> x, shortenLabels |-> s, categories |-> OneCategory] : x, s \in BOOLEAN}
    \cup {SetField([isX |-> TRUE, shortenLabels |-> TRUE, categories |-> OneCategory], "labels", l)
        : l \in LabelObjects}

\* the options objects of the axes initialised after the first
OtherOptions ==
    {[isX |-> FALSE, shortenLabels |-> TRUE, categories |-> OneCategory],
     [isX |-> TRUE, shortenLabels |-> TRUE, categories |-> OneCategory],
     [isX |-> TRUE, shortenLabels |-> TRUE, categories |-> OneCategory,
      labels |-> [rotation |-> 45, style |-> [font |-> <<"9", "p", "x", " ", "A", " ", "B">>]]]}

Init == InitAxes({PlainChart, StyledChart})

Next ==
    \/ \E i \in 1 .. MaxAxes :
          \E o \in (IF i = 1 THEN InitOptions ELSE OtherOptions) : InitAxis(i, o)
    \/ \E i \in 1 .. MaxAxes, v \in {ReplaceSpaces(OneCategory[1])},
          w \in PlotWidthsCoarse, n \in 1 .. MaxTicks : FormatterCall(i, v, w, n)
    \/ \E i \in 1 .. MaxAxes, w \in PlotWidthsCoarse : TickPositionerCall(i, w)

Spec == Init /\ [][Next]_vars

\* category lists: up to MaxCategoryCount strings of up to MaxCategoryLen
\* characters
CategoryStrings == SeqsUpTo({"a", " "}, MaxCategoryLen)
CategoryLists == SeqsUpTo(CategoryStrings, MaxCategoryCount)
CategoryOptions ==
    {[isX |-> x, shortenLabels |-> s, categories |-> c]
        : x, s \in BOOLEAN, c \in CategoryLists}

InitCategories == InitAxes({PlainChart})

NextCategories ==
    \/ \E o \in (IF NextAxis = 1 THEN CategoryOptions ELSE {}) : InitAxis(1, o)
    \/ \E v \in (IF Initialised(1) THEN RangeOf(axes[1].categories) ELSE {}) :
          FormatterCall(1, v, 10 * PlotStep, 1)

SpecCategories == InitCategories /\ [][NextCategories]_vars

\* axes with 0 .. MaxCategories categories, rotated labels or not, and font
\* sizes that parseFloat reads as 7, as 0 and as NaN
Repeat(c, n) == [k \in 1 .. n |-> c]
TickLabelObjects ==
    Objects({"style", "rotation"},
            [style |-> {[fontSize |-> <<"7", "p", "x">>], [fontSize |-> <<"0", "p", "x">>],
                        [font |-> <<"b", " ", "9", "p", "x", " ", "A">>]},
             rotation |-> {0, 45}])
TickOptions ==
    {SetField([isX |-> TRUE, shortenLabels |-> TRUE, categories |-> Repeat(<<"a">>, n)],
              "labels", l)
        : n \in 0 .. MaxCategories, l \in TickLabelObjects}

InitTicks == InitAxes({PlainChart})

NextTicks ==
    \/ \E o \in TickOptions : InitAxis(1, o)
    \/ \E w \in PlotWidths : TickPositionerCall(1, w)

SpecTicks == InitTicks /\ [][NextTicks]_vars

\* two axes with different label fonts and the same categories: an empty
\* label, the name of a property of Object.prototype, and labels to shorten
CacheCategories ==
    << <<>>, <<"valueOf">>, <<"a", "a", "a", "a", "a", "a">>, <<"a", " ", "a">> >>
CacheOptions ==
    {[isX |-> TRUE, shortenLabels |-> TRUE, categories |-> CacheCategories],
     [isX |-> TRUE, shortenLabels |-> TRUE, categories |-> CacheCategories,
      labels |-> [style |-> [fontSize |-> <<"7", "p", "x">>]]]}

InitCache == InitAxes({PlainChart})

NextCache ==
    \/ \E i \in 1 .. MaxAxes, o \in CacheOptions : InitAxis(i, o)
    \/ \E i \in 1 .. MaxAxes, k \in 1 .. Len(CacheCategories), w \in PlotWidthsCoarse :
          FormatterCall(i, ReplaceSpaces(CacheCategories[k]), w, 1)

SpecCache == InitCache /\ [][NextCache]_vars

\* --------------------------------------------- claims about getShortened
TextWidth(t) == SumWidths(charWidth, t)
EndsWithEllipsis(r) == Len(r) >= 3 /\ SubSeq(r, Len(r) - 2, Len(r)) = Ellipsis
\* every character, the dot included, is equally wide
Uniform == \A c, d \in Chars : charWidth[c] = charWidth[d]
MinCharWidth == CHOOSE m \in 0 .. MaxCharW :
    /\ \E c \in Chars : charWidth[c] = m
    /\ \A c \in Chars : charWidth[c] >= m

C2_EveryIterationReturnsOrShrinks ==
    [][/\ pc = "loop" => (pc' = "done" \/ Len(short') < Len(short))
       /\ (pc' = "done" /\ maxWidth' <= 0) => result' = <<".">>]_vars

C4_SmallWidthGivesMarker ==
    (pc = "done" /\ maxWidth < 4 * MinCharWidth) => result = <<".">>

\* C4 (amended): for a text of positive measured width that does not fit
\* (its width is at least maxWidth), a maxWidth smaller than four times the
\* text's average character width gives exactly ".".
C4_SmallWidthGivesMarkerWhenTooWide ==
    (/\ pc = "done" /\ TextWidth(text) > 0 /\ TextWidth(text) >= maxWidth
     /\ maxWidth * Len(text) < 4 * TextWidth(text))
        => result = <<".">>

C4_Witness ==
    /\ pc = "done" /\ Len(text) >= 4 /\ maxWidth > 0
    /\ 3 * TextWidth(text) <= maxWidth * Len(text)
    /\ maxWidth * Len(text) < 4 * TextWidth(text)
    /\ result = <<".">>

\* the lengths of the results for the text of the call under way and every
\* maxWidth no greater than the call's, where getShortened returns at all
NoLongerForSmallerWidths ==
    \A w2 \in Widths :
        LET r == getShortened(charWidth, text, w2) IN
        (w2 <= maxWidth /\ ~r.diverged) => Len(r.result) <= Len(result)

\* C5 (as stated): the length of the result does not grow as maxWidth
\* decreases, whatever the characters' widths.
C5_LengthMonotone == pc = "done" => NoLongerForSmallerWidths

\* C5 (amended): when all characters are equally wide, the length of the
\* result does not grow as maxWidth decreases (over the maxWidth values for
\* which getShortened returns).
C5_LengthMonotoneWhenUniform == (pc = "done" /\ Uniform) => NoLongerForSmallerWidths

C5_Witness ==
    /\ pc = "done" /\ Uniform /\ charWidth["i"] > 0
    /\ Len(result) = 4 /\ EndsWithEllipsis(result)
    /\ Len(getShortened(charWidth, text, maxWidth - 1).result) = 1

\* ------------------------------------- claims about the TextShortener
Stored(t) ==
    LET cacheKey == StringOf(t[1]) \o <<"|">> \o StringOf(t[2]) IN
    cacheKey \in DOMAIN cache /\ t[3] \in DOMAIN cache[cacheKey]

\* C6 (as stated): measureText (the DOM measurement) runs at most once per
\* (style, className, text); the first time a triple is asked for it is
\* measured and the result stored; a stored entry is never changed or
\* removed.  (Stated of the formatter calls that return.)
C6_MeasuredOncePerTriple ==
    [][/\ \A t \in DOMAIN measured' : measured'[t] <= 1
       /\ (last'.kind = "format" /\ last'.returned) =>
            \A t \in last'.accessed : Count(measured', t) = 1 /\ Stored(t)'
       /\ \A key \in DOMAIN cache :
            /\ key \in DOMAIN cache'
            /\ \A t \in DOMAIN cache[key] :
                t \in DOMAIN cache'[key] /\ cache'[key][t] = cache[key][t]]_vars

\* ------------------------------------- claims about the tick positioner
Ascending(s) == \A k \in 1 .. Len(s) - 1 : s[k] < s[k + 1]
\* the per-tick footprint of the axis asked last, when it is a number
TickFootprint ==
    IF axes[last.axis].labelsRotated
    THEN (IF IsNum(axes[last.axis].axisFontSize)
          THEN 2 * axes[last.axis].axisFontSize.num ELSE 0)
    ELSE 80
CategoryCount == Len(axes[last.axis].categories)
Multiples(skip, n) == {i \in 0 .. n - 1 : i % skip = 0}

C8_InertWhenNotApplicable ==
    \A i \in DOMAIN axes :
        (Initialised(i) /\ (~axes[i].given.isX \/ ~axes[i].given.shortenLabels)) =>
            /\ axes[i].proceedCalls = 1
            /\ axes[i].passed = axes[i].given
            /\ axes[i].userOptions = axes[i].given
            /\ axes[i].options = axes[i].given
            /\ ~Has(axes[i].options, "tickPositioner")
            /\ ~Has(axes[i], "customOptions")

C8_Witness ==
    /\ Initialised(1) /\ axes[1].given.isX /\ ~axes[1].given.shortenLabels
    /\ Has(axes[1].given, "labels")
    /\ axes[1].options.labels.formatter = [user |-> TRUE]
    /\ Initialised(2) /\ axes[2].enabled

\* C9: with shortenLabels on the x axis, the options object handed to the
\* original init has every space of every category replaced by a
\* non-breaking space, the number and order of the categories and every
\* other character kept; afterwards no category of the axis holds a space.
C9_SpacesReplaced ==
    \A i \in DOMAIN axes :
        (Initialised(i) /\ axes[i].given.isX /\ axes[i].given.shortenLabels) =>
            LET before == axes[i].given.categories
                after == axes[i].passed.categories
            IN  /\ Len(after) = Len(before)
                /\ \A k \in 1 .. Len(before) :
                    /\ Len(after[k]) = Len(before[k])
                    /\ \A j \in 1 .. Len(before[k]) :
                        after[k][j] = (IF before[k][j] = " " THEN NBSP ELSE before[k][j])
                /\ axes[i].categories = after
                /\ axes[i].userOptions.categories = after
                /\ \A k \in 1 .. Len(after) : " " \notin RangeOf(axes[i].categories[k])

C9_Witness ==
    /\ Initialised(1) /\ axes[1].enabled
    /\ axes[1].given.categories = << <<" ", " ">>, <<"a", " ">> >>
    /\ axes[1].categories = << <<NBSP, NBSP>>, <<"a", NBSP>> >>

\* the style a call of the wrapper is to resolve from the options handed in
GivenStyle(o) ==
    IF Has(o, "labels") /\ Has(o.labels, "style") THEN o.labels.style ELSE <<>>
GivenFont(o) == IF Has(GivenStyle(o), "font") THEN GivenStyle(o).font ELSE <<>>
FirstSpace(f) == CHOOSE k \in 1 .. Len(f) : f[k] = " " /\ \A j \in 1 .. k - 1 : f[j] # " "
SizeOfFont(f) ==
    IF " " \in RangeOf(f) THEN SubSeq(f, 1, FirstSpace(f) - 1) ELSE f
FamilyOfFont(f) ==
    IF " " \in RangeOf(f) THEN SubSeq(f, FirstSpace(f) + 1, Len(f)) ELSE <<>>
ExpectedSize(o) ==
    IF SizeOfFont(GivenFont(o)) # <<>> THEN SizeOfFont(GivenFont(o))
    ELSE IF Has(GivenStyle(o), "fontSize") THEN GivenStyle(o).fontSize
    ELSE <<"1", "1", "p", "x">>
ExpectedFamily(o) ==
    IF FamilyOfFont(GivenFont(o)) # <<>> THEN FamilyOfFont(GivenFont(o))
    ELSE IF Has(GivenStyle(o), "fontFamily") THEN GivenStyle(o).fontFamily
    ELSE IF chart = StyledChart THEN <<"C">>
    ELSE DefaultFontFamily
ExpectedStyle(o) ==
    <<"font-size:">> \o ExpectedSize(o) \o <<";font-family:">> \o ExpectedFamily(o)

\* C10: every measurement a formatter call asks for, once its axis'
\* initialisation has returned, is made with the style
\* 'font-size:<size>;font-family:<family>' resolved for that axis (font split
\* on its first space; family falling back to labels.style.fontFamily, the
\* chart's fontFamily, the default list; size to labels.style.fontSize,
\* "11px"), whatever axes have been initialised since, and never with an
\* unresolved style.
C10_FormatterUsesOwnStyle ==
    last.kind = "format" =>
        /\ last.accessed # {}
        /\ \A t \in last.accessed :
            t[1] # Undefined /\ t[1] = {ExpectedStyle(axes[last.axis].given)}

C10_Witness ==
    /\ last.kind = "format" /\ last.axis = 1 /\ last.returned
    /\ GivenFont(axes[1].given) = <<" ", "A">>
    /\ Has(GivenStyle(axes[1].given), "fontSize")
    /\ Initialised(2) /\ axes[2].enabled
    /\ axes[2].customOptions # axes[1].customOptions

====
